---- MODULE Spec2Model ----
(***************************************************************************)
(* Model of llmchat.py: a Streamlit chat front-end that keeps a message    *)
(* log in session state, persists it as one JSON file per chat, streams a  *)
(* chat completion from one of two providers and limits itself to 10 API   *)
(* calls per 60 seconds.                                                   *)
(*                                                                         *)
(* One script run is one handler.  The submit handler is split where the   *)
(* environment delivers input: Submit runs lines 115-156 (admission, key   *)
(* check, user append, POST), RecvFrame runs one iteration of the loop at  *)
(* lines 159-173, StreamError is iter_lines raising, StreamEnd runs lines  *)
(* 175-177.  Every except branch (lines 179-192) is part of the action in  *)
(* which the exception is raised.                                          *)
(***************************************************************************)
EXTENDS Integers, Sequences, FiniteSets, TLC

VARIABLES
    messages,       \* st.session_state.messages
    current_chat,   \* st.session_state.current_chat
    disk,           \* the files of HISTORY_DIR, by chat identifier
    api_calls,      \* st.session_state.api_calls
    now,            \* the value time.time() returns
    pc,             \* "idle", or "streaming" inside the loop of line 159
    api_provider,   \* the provider selected for the submit in flight
    full_response,  \* local of the submit handler
    chunk_json,     \* local of the submit handler
    nframes,        \* number of lines iter_lines has delivered so far
    before,         \* history: messages when the submit in flight started
    user_msg,       \* history: the user message the submit in flight appended
    upload,         \* history: the file attached to the submit in flight
    typed,          \* history: the text typed for the submit in flight
    deltas,         \* history: delta contents of the frames received so far
    partial,        \* history: the last stream failed with text accumulated
    admitted,       \* history: every time at which check_rate_limit returned True
    posted,         \* history: the last handler step called requests.post
    outcome,        \* history: how the last handler step ended
    callers         \* check_rate_limit, line by line: where each call stands

vars == <<messages, current_chat, disk, api_calls, now, pc, api_provider,
          full_response, chunk_json, nframes, before, user_msg, upload, typed,
          deltas, partial, admitted, posted, outcome, callers>>

(***************************************************************************)
(* Program constants                                                       *)
(***************************************************************************)
RateWindow == 60
RateLimit == 10

(***************************************************************************)
(* Bounds of the model                                                     *)
(***************************************************************************)
MaxClock == 120     \* the clock stops advancing past this value
MaxSubmits == 2     \* admitted submits in one behaviour of Spec
MaxLog == 3         \* SpecLimit starts no submit on a log of this length
MaxChats == 2       \* number of chat identifiers that can be drawn
MaxFrames == 2      \* lines delivered by one streamed response
MaxCallers == 2     \* script threads inside check_rate_limit at once
MaxCalls == 12      \* calls admitted in one behaviour of SpecThreads

(***************************************************************************)
(* check_rate_limit, lines 78-85                                           *)
(***************************************************************************)
\* variant: a time exactly 60 seconds old survives the pruning
RetainedAtSixty(t, at) == t >= at - RateWindow

Retained(t, at) == t > at - RateWindow

\* variant: the list is not filtered
prune_nothing(calls, at) == calls

Prune(calls, at) == SelectSeq(calls, LAMBDA t : Retained(t, at))

\* variant: the window is full only past the limit
FullPastLimit(calls) == Len(calls) > RateLimit

Full(calls) == Len(calls) >= RateLimit

\* variant: line 83 missing, so a full window still admits
check_rate_limit_no_return(calls, at) ==
    [ok |-> TRUE, calls |-> Append(Prune(calls, at), at)]

check_rate_limit(calls, at) ==
    LET pruned == Prune(calls, at)
    IN  IF Full(pruned)
        THEN [ok |-> FALSE, calls |-> pruned]
        ELSE [ok |-> TRUE, calls |-> Append(pruned, at)]

(***************************************************************************)
(* Persistence, lines 50-64.  A file holds what json.dump wrote, or is     *)
(* left truncated when the write fails after open(..., "w").               *)
(***************************************************************************)
ChatIds == 1..MaxChats

Absent == [state |-> "absent"]

Truncated == [state |-> "truncated"]

\* a JSON text as its tokens: punctuation, and string literals by their value
Punct(p) == [t |-> "punct", v |-> p]

Str(s) == [t |-> "str", v |-> s]

\* datetime.now().isoformat(): the clock value as a string
isoformat(at) == ToString(at)

dump_message(m) ==
    << Punct("{"), Str("role"), Punct(":"), Str(m.role), Punct(","),
       Str("content"), Punct(":"), Str(m.content), Punct("}") >>

RECURSIVE dump_list(_)
dump_list(msgs) ==
    IF msgs = <<>> THEN <<>>
    ELSE IF Len(msgs) = 1 THEN dump_message(msgs[1])
    ELSE dump_message(msgs[1]) \o <<Punct(",")>> \o dump_list(Tail(msgs))

\* json.dump of lines 53-56
json_dump(at, msgs) ==
    << Punct("{"), Str("timestamp"), Punct(":"), Str(isoformat(at)), Punct(","),
       Str("messages"), Punct(":"), Punct("[") >>
    \o dump_list(msgs) \o <<Punct("]"), Punct("}")>>

\* the value of `key` in the object whose "{" is at position i
member(text, i, key) ==
    LET k == CHOOSE k \in {i + 1, i + 5} : text[k] = Str(key)
    IN  text[k + 2].v

\* variant: the role is read where the content is
load_message_content_twice(text, i) ==
    [role |-> member(text, i, "content"), content |-> member(text, i, "content")]

load_message(text, i) ==
    [role |-> member(text, i, "role"), content |-> member(text, i, "content")]

RECURSIVE load_list(_, _)
load_list(text, i) ==
    IF text[i] = Punct("]") THEN <<>>
    ELSE IF text[i] = Punct(",") THEN load_list(text, i + 1)
    ELSE <<load_message(text, i)>> \o load_list(text, i + 9)

\* json.load of line 63
json_load(text) ==
    [timestamp |-> member(text, 1, "timestamp"),
     messages |-> load_list(text, 1 + CHOOSE k \in {4, 8} : text[k] = Punct("["))]

Saved(at, msgs) == [state |-> "saved", text |-> json_dump(at, msgs)]

\* what json.load reads from a file that was written to its end
Record(file) == json_load(file.text)

SaveResults == {"ok", "open_fails", "write_fails"}

\* save_chat_history: the files after the call, by how the write ends
save_chat_history(files, chat, msgs, at, result) ==
    CASE result = "ok" -> [files EXCEPT ![chat] = Saved(at, msgs)]
      [] result = "open_fails" -> files
      [] result = "write_fails" -> [files EXCEPT ![chat] = Truncated]

\* load_chat_history raises on a file json.load cannot parse
Loadable(files) == \A c \in DOMAIN files : files[c] # Truncated

load_chat_history(files) ==
    [c \in {d \in DOMAIN files : files[d].state = "saved"} |-> Record(files[c])]

(***************************************************************************)
(* read_uploaded_file, lines 66-76, and the prompt of line 123             *)
(***************************************************************************)
NoUpload == [type |-> "none", text |-> "", paras |-> <<>>, broken |-> FALSE]

TextPlain == "text/plain"

Docx == "application/vnd.openxmlformats-officedocument.wordprocessingml.document"

TextFile(text) == [type |-> TextPlain, text |-> text, paras |-> <<>>, broken |-> FALSE]

DocxFile(paras) == [type |-> Docx, text |-> "", paras |-> paras, broken |-> FALSE]

RECURSIVE Join(_, _)
Join(sep, parts) ==
    IF parts = <<>> THEN ""
    ELSE IF Len(parts) = 1 THEN parts[1]
    ELSE parts[1] \o sep \o Join(sep, Tail(parts))

\* a file that cannot be decoded or opened raises, which line 74 turns into ""
read_uploaded_file(file) ==
    IF file.broken THEN ""
    ELSE IF file.type = TextPlain THEN file.text
    ELSE IF file.type = Docx THEN Join("\n", file.paras)
    ELSE ""

file_content(uploaded_file) ==
    IF uploaded_file # NoUpload THEN read_uploaded_file(uploaded_file) ELSE ""

\* variant: the newline of line 123 missing
full_prompt_no_newline(content, prompt) ==
    IF content # "" THEN content \o prompt ELSE prompt

full_prompt(content, prompt) ==
    IF content # "" THEN content \o "\n" \o prompt ELSE prompt

UserMessage(content) == [role |-> "user", content |-> content]

AssistantMessage(content) == [role |-> "assistant", content |-> content]

\* variant: messages.pop() missing from the except branches
PopNothing(msgs) == msgs

Pop(msgs) == SubSeq(msgs, 1, Len(msgs) - 1)

(***************************************************************************)
(* Frames of the streamed body and their decoding, lines 160-172.  A line  *)
(* is the characters of its envelope followed by a body that is either a   *)
(* JSON document or text json.loads rejects; no body starts with a         *)
(* character of "data: ".                                                  *)
(***************************************************************************)
NoJson == [str |-> ""]                       \* chunk_json = "" of line 158

DeltaPayload(c) == [choices |-> <<[delta |-> [content |-> c]]>>]

RolePayload == [choices |-> <<[delta |-> [role |-> "assistant"]]>>]

FinishPayload == [choices |-> <<[finish_reason |-> "stop"]>>]

DataPrefix == <<"d", "a", "t", "a", ":", " ">>

DataChars == {"d", "a", "t", ":", " "}

Whitespace == {" ", "\t"}

JsonBody(v) == [kind |-> "json", json |-> v, text |-> ""]

TextBody(t) == [kind |-> "text", json |-> NoJson, text |-> t]

EmptyLine == [env |-> <<>>, body |-> [kind |-> "none", json |-> NoJson, text |-> ""]]

Line(env, body) == [env |-> env, body |-> body]

RECURSIVE LStrip(_, _)
LStrip(s, chars) ==
    IF s # <<>> /\ s[1] \in chars THEN LStrip(Tail(s), chars) ELSE s

StartsWith(s, p) == Len(s) >= Len(p) /\ SubSeq(s, 1, Len(p)) = p

\* json.loads of the characters `rest` followed by the body
json_loads(rest, body) ==
    IF body.kind = "json" /\ \A i \in DOMAIN rest : rest[i] \in Whitespace
    THEN [ok |-> TRUE, json |-> body.json]
    ELSE [ok |-> FALSE, json |-> NoJson]

\* lines 162-167: the value chunk_json holds after the provider's branch
Decode(provider, line, prev) ==
    IF provider = "OpenRouter"
    THEN LET chunk_str == LStrip(line.env, Whitespace)
         IN  IF StartsWith(chunk_str, DataPrefix)
             THEN json_loads(SubSeq(chunk_str, 7, Len(chunk_str)), line.body)
             ELSE [ok |-> TRUE, json |-> prev]
    ELSE json_loads(LStrip(line.env, DataChars), line.body)

\* lines 169-172: the text the payload adds to full_response
DeltaText(json) ==
    IF "choices" \in DOMAIN json
    THEN LET choice == json.choices[1]
             delta == IF "delta" \in DOMAIN choice THEN choice.delta ELSE <<>>
         IN  IF "content" \in DOMAIN delta THEN delta.content ELSE ""
    ELSE ""

\* history: the delta content a received line carries, if any
Carried(line) ==
    IF line.body.kind = "json" /\ DeltaText(line.body.json) # ""
    THEN <<DeltaText(line.body.json)>>
    ELSE <<>>


(***************************************************************************)
(* Inputs                                                                  *)
(***************************************************************************)
Providers == {"DeepSeek Direct", "OpenRouter"}

Prompts == {"Hello"}

Keys == {"", "sk-1"}

Uploads ==
    { NoUpload, TextFile("Context."), TextFile(""), DocxFile(<<"Con", "text.">>),
      [type |-> "application/pdf", text |-> "Context.", paras |-> <<>>, broken |-> FALSE],
      [type |-> TextPlain, text |-> "Context.", paras |-> <<>>, broken |-> TRUE] }

Responses == {"refused", "status_429", "status_200"}

Comment == <<":", " ">>

HiLine == Line(DataPrefix, JsonBody(DeltaPayload("Hi")))

ThereLine == Line(DataPrefix, JsonBody(DeltaPayload(" there")))

RoleLine == Line(DataPrefix, JsonBody(RolePayload))

FinishLine == Line(DataPrefix, JsonBody(FinishPayload))

BadLine == Line(DataPrefix, TextBody("{\"choices\": [{\"del"))

CommentLine == Line(Comment, TextBody("OPENROUTER PROCESSING"))

Lines == {EmptyLine, HiLine, ThereLine, RoleLine, FinishLine, BadLine, CommentLine}

TickSteps == {30, 59}

(***************************************************************************)
(* State after lines 41-48                                                 *)
(***************************************************************************)
NoMessage == [role |-> "none", content |-> ""]

Callers == 1 .. MaxCallers

\* a thread that is not inside check_rate_limit
NoCall == [at |-> "idle", now |-> 0, kept |-> <<>>]

Init ==
    /\ messages = <<>>
    /\ current_chat = 1
    /\ disk = [c \in ChatIds |-> Absent]
    /\ api_calls = <<>>
    /\ now = 0
    /\ pc = "idle"
    /\ api_provider = "none"
    /\ full_response = ""
    /\ chunk_json = NoJson
    /\ nframes = 0
    /\ before = <<>>
    /\ user_msg = NoMessage
    /\ upload = NoUpload
    /\ typed = ""
    /\ deltas = <<>>
    /\ partial = FALSE
    /\ admitted = <<>>
    /\ posted = FALSE
    /\ outcome = "none"
    /\ callers = [c \in Callers |-> NoCall]

\* the locals of the submit handler are gone when the script run ends
Ended ==
    /\ pc' = "idle"
    /\ api_provider' = "none"
    /\ full_response' = ""
    /\ chunk_json' = NoJson
    /\ nframes' = 0
    /\ before' = <<>>
    /\ user_msg' = NoMessage
    /\ upload' = NoUpload
    /\ typed' = ""
    /\ deltas' = <<>>

\* a script run gets past line 100 only if load_chat_history does not raise
Runnable == pc = "idle" /\ Loadable(disk)

(***************************************************************************)
(* The clock                                                               *)
(***************************************************************************)
Tick(d) ==
    /\ now + d <= MaxClock
    /\ now' = now + d
    /\ UNCHANGED <<messages, current_chat, disk, api_calls, pc, api_provider,
                   full_response, chunk_json, nframes, before, user_msg, upload,
                   typed, deltas, partial, admitted, posted, outcome, callers>>

(***************************************************************************)
(* New chat, lines 102-106                                                 *)
(***************************************************************************)
\* variant: the log is emptied before it is saved
new_chat_clearing_first(save) ==
    /\ Runnable
    /\ current_chat < MaxChats
    /\ disk' = save_chat_history(disk, current_chat, <<>>, now, save)
    /\ IF save = "ok"
       THEN /\ current_chat' = current_chat + 1
            /\ messages' = <<>>
            /\ outcome' = "new_chat"
       ELSE /\ UNCHANGED <<current_chat, messages>>
            /\ outcome' = "crash"
    /\ posted' = FALSE
    /\ partial' = FALSE
    /\ UNCHANGED <<api_calls, now, pc, api_provider, full_response, chunk_json,
                   nframes, before, user_msg, upload, typed, deltas, admitted,
                   callers>>

NewChat(save) ==
    /\ Runnable
    /\ current_chat < MaxChats
    /\ disk' = save_chat_history(disk, current_chat, messages, now, save)
    /\ IF save = "ok"
       THEN /\ current_chat' = current_chat + 1
            /\ messages' = <<>>
            /\ outcome' = "new_chat"
       ELSE /\ UNCHANGED <<current_chat, messages>>
            /\ outcome' = "crash"
    /\ posted' = FALSE
    /\ partial' = FALSE
    /\ UNCHANGED <<api_calls, now, pc, api_provider, full_response, chunk_json,
                   nframes, before, user_msg, upload, typed, deltas, admitted,
                   callers>>

(***************************************************************************)
(* Submit, lines 115-156: admission, key check, user append, POST          *)
(***************************************************************************)
\* variant: the key is never looked at
key_missing_never(api_key) == FALSE

\* `not api_key` of line 119
key_missing(api_key) == api_key = ""

Submit(prompt, uploaded_file, api_key, provider, response) ==
    LET admission == check_rate_limit(api_calls, now)
        user == UserMessage(full_prompt(file_content(uploaded_file), prompt))
    IN
    /\ Runnable
    /\ api_calls' = admission.calls
    /\ admitted' = IF admission.ok THEN Append(admitted, now) ELSE admitted
    /\ partial' = FALSE
    /\ UNCHANGED <<current_chat, disk, now, callers>>
    /\ IF ~admission.ok
       THEN /\ outcome' = "rate_limited"
            /\ posted' = FALSE
            /\ UNCHANGED <<messages, pc, api_provider, full_response, chunk_json,
                           nframes, before, user_msg, upload, typed, deltas>>
       ELSE IF key_missing(api_key)
       THEN /\ outcome' = "no_key"
            /\ posted' = FALSE
            /\ UNCHANGED <<messages, pc, api_provider, full_response, chunk_json,
                           nframes, before, user_msg, upload, typed, deltas>>
       ELSE /\ posted' = TRUE
            /\ IF response = "status_200"
               THEN /\ messages' = Append(messages, user)
                    /\ pc' = "streaming"
                    /\ api_provider' = provider
                    /\ full_response' = ""
                    /\ chunk_json' = NoJson
                    /\ nframes' = 0
                    /\ before' = messages
                    /\ user_msg' = user
                    /\ upload' = uploaded_file
                    /\ typed' = prompt
                    /\ deltas' = <<>>
                    /\ outcome' = "streaming"
               ELSE /\ messages' = Pop(Append(messages, user))
                    /\ outcome' = IF response = "refused"
                                  THEN "refused" ELSE "api_error"
                    /\ Ended

(***************************************************************************)
(* One iteration of the loop of lines 159-173                              *)
(***************************************************************************)
RecvFrame(line) ==
    LET decoded == Decode(api_provider, line, chunk_json)
    IN
    /\ pc = "streaming"
    /\ nframes < MaxFrames
    /\ posted' = FALSE
    /\ UNCHANGED <<current_chat, disk, api_calls, now, admitted, callers>>
    /\ IF line = EmptyLine
       THEN /\ nframes' = nframes + 1
            /\ UNCHANGED <<messages, pc, api_provider, full_response, chunk_json,
                           before, user_msg, upload, typed, deltas, partial,
                           outcome>>
       ELSE IF ~decoded.ok
       THEN /\ messages' = Pop(messages)
            /\ outcome' = "parse_error"
            /\ partial' = (full_response # "")
            /\ Ended
       ELSE /\ chunk_json' = decoded.json
            /\ full_response' = full_response \o DeltaText(decoded.json)
            /\ nframes' = nframes + 1
            /\ deltas' = deltas \o Carried(line)
            /\ UNCHANGED <<messages, pc, api_provider, before, user_msg, upload,
                           typed, partial, outcome>>

(***************************************************************************)
(* iter_lines raises: the except branch of lines 190-192                   *)
(***************************************************************************)
\* variant: the except branch stores the text accumulated so far
StreamErrorKeepingText ==
    /\ pc = "streaming"
    /\ messages' = Append(messages, AssistantMessage(full_response))
    /\ outcome' = "transport_error"
    /\ partial' = (full_response # "")
    /\ posted' = FALSE
    /\ Ended
    /\ UNCHANGED <<current_chat, disk, api_calls, now, admitted, callers>>

\* variant: the except branch also takes the call time back from the window
stream_error_freeing_slot ==
    /\ pc = "streaming"
    /\ messages' = Pop(messages)
    /\ api_calls' = Pop(api_calls)
    /\ outcome' = "transport_error"
    /\ partial' = (full_response # "")
    /\ posted' = FALSE
    /\ Ended
    /\ UNCHANGED <<current_chat, disk, now, admitted, callers>>

StreamError ==
    /\ pc = "streaming"
    /\ messages' = Pop(messages)
    /\ outcome' = "transport_error"
    /\ partial' = (full_response # "")
    /\ posted' = FALSE
    /\ Ended
    /\ UNCHANGED <<current_chat, disk, api_calls, now, admitted, callers>>

(***************************************************************************)
(* The run is cancelled inside the try block of lines 149-177: the          *)
(* exception that ends it (KeyboardInterrupt, the stop or rerun exception   *)
(* of the script runner) is a BaseException, so neither `except HTTPError`  *)
(* (line 179) nor `except Exception` (line 190) applies and no pop() runs   *)
(***************************************************************************)
Interrupt ==
    /\ pc = "streaming"
    /\ outcome' = "interrupted"
    /\ partial' = (full_response # "")
    /\ posted' = FALSE
    /\ Ended
    /\ UNCHANGED <<messages, current_chat, disk, api_calls, now, admitted,
                   callers>>

(***************************************************************************)
(* The body is exhausted: lines 175-177, and lines 190-192 when            *)
(* save_chat_history raises                                                *)
(***************************************************************************)
StreamEnd(save) ==
    LET appended == Append(messages, AssistantMessage(full_response))
    IN
    /\ pc = "streaming"
    /\ disk' = save_chat_history(disk, current_chat, appended, now, save)
    /\ IF save = "ok"
       THEN /\ messages' = appended
            /\ outcome' = "success"
       ELSE /\ messages' = Pop(appended)
            /\ outcome' = "save_error"
    /\ partial' = FALSE
    /\ posted' = FALSE
    /\ Ended
    /\ UNCHANGED <<current_chat, api_calls, now, admitted, callers>>

(***************************************************************************)
(* check_rate_limit, lines 78-85, one statement at a time, for script      *)
(* threads that share st.session_state.api_calls; the function takes no    *)
(* lock                                                                    *)
(***************************************************************************)
chat_vars == <<messages, current_chat, disk, now, pc, api_provider,
               full_response, chunk_json, nframes, before, user_msg, upload,
               typed, deltas, partial, posted, outcome>>

\* lines 79-80, right-hand side: the clock is read and the list filtered
CallFilter(c) ==
    /\ callers[c].at = "idle"
    /\ Len(admitted) < MaxCalls
    /\ callers' = [callers EXCEPT ![c] =
                      [at |-> "store", now |-> now, kept |-> Prune(api_calls, now)]]
    /\ UNCHANGED <<api_calls, admitted, chat_vars>>

\* line 80, assignment: the filtered list replaces the shared one
CallStore(c) ==
    /\ callers[c].at = "store"
    /\ api_calls' = callers[c].kept
    /\ callers' = [callers EXCEPT ![c].at = "check"]
    /\ UNCHANGED <<admitted, chat_vars>>

\* lines 81-83: the length of the shared list is compared with the limit
CallCheck(c) ==
    /\ callers[c].at = "check"
    /\ callers' = [callers EXCEPT ![c] =
                      IF Full(api_calls) THEN NoCall ELSE [@ EXCEPT !.at = "append"]]
    /\ UNCHANGED <<api_calls, admitted, chat_vars>>

\* lines 84-85: the call time is appended to the shared list, True returned
CallAppend(c) ==
    /\ callers[c].at = "append"
    /\ api_calls' = Append(api_calls, callers[c].now)
    /\ admitted' = Append(admitted, callers[c].now)
    /\ callers' = [callers EXCEPT ![c] = NoCall]
    /\ UNCHANGED chat_vars

(***************************************************************************)
(* Specifications                                                          *)
(***************************************************************************)
SubmitStep ==
    \E prompt \in Prompts, file \in Uploads, key \in Keys,
       provider \in Providers, response \in Responses :
        Submit(prompt, file, key, provider, response)

\* the chat: every handler, at one clock value, a few submits long
Next ==
    \/ \E save \in SaveResults : NewChat(save)
    \/ /\ Len(admitted) < MaxSubmits
       /\ \E prompt \in Prompts, key \in Keys, provider \in Providers,
             response \in Responses :
            Submit(prompt, NoUpload, key, provider, response)
    \/ \E line \in Lines : RecvFrame(line)
    \/ StreamError
    \/ Interrupt
    \/ \E save \in SaveResults : StreamEnd(save)

Spec == Init /\ [][Next]_vars

\* the rate limiter: submits without a key, at every clock value
NextRate ==
    \/ \E d \in TickSteps : Tick(d)
    \/ \E prompt \in Prompts : Submit(prompt, NoUpload, "", "OpenRouter", "refused")

SpecRate == Init /\ [][NextRate]_vars

\* the rate limiter in front of one chat: every upload, one provider, one frame
NextLimit ==
    \/ /\ Len(messages) < MaxLog
       /\ \E prompt \in Prompts, file \in Uploads, key \in Keys,
             response \in Responses :
            Submit(prompt, file, key, "OpenRouter", response)
    \/ RecvFrame(HiLine)
    \/ StreamError
    \/ \E save \in SaveResults : StreamEnd(save)

SpecLimit == Init /\ [][NextLimit]_vars

\* the rate limiter called from several threads, at one clock value
NextThreads ==
    \E c \in Callers :
        \/ CallFilter(c)
        \/ CallStore(c)
        \/ CallCheck(c)
        \/ CallAppend(c)

SpecThreads == Init /\ [][NextThreads]_vars

(***************************************************************************)
(* Rate limiter                                                            *)
(***************************************************************************)
\* the admitted calls whose time lies in the 60 seconds that start at a
AdmittedFrom(a) ==
    {i \in DOMAIN admitted : a <= admitted[i] /\ admitted[i] < a + RateWindow}

\* C1: whatever the sequence of calls at non-decreasing clock values, no
\* interval of 60 seconds [a, a + 60) holds more than 10 of the times at which
\* check_rate_limit returned True.  (Such an interval with more than 10 of
\* them could be moved to start at the first one it holds.)
C1_AtMostTenPerWindow ==
    \A i \in DOMAIN admitted : Cardinality(AdmittedFrom(admitted[i])) <= RateLimit

\* a window was filled, a call was refused, and a later call was admitted
C1_Witness ==
    /\ Len(admitted) > RateLimit
    /\ \E i \in DOMAIN admitted : Cardinality(AdmittedFrom(admitted[i])) = RateLimit
    /\ outcome = "no_key"

\* what one call does to the window, with `kept` telling which times survive
AdmitEffect(kept(_)) ==
    LET pruned == SelectSeq(api_calls, kept)
    IN  IF Len(pruned) >= RateLimit
        THEN /\ outcome' = "rate_limited"
             /\ admitted' = admitted
             /\ api_calls' = pruned
        ELSE /\ outcome' # "rate_limited"
             /\ admitted' = Append(admitted, now)
             /\ api_calls' = Append(pruned, now)

\* C8 as stated: a call drops the times older than 60 seconds (t < now - 60),
\* refuses with the window exactly so pruned when 10 or more remain, and
\* otherwise admits with the call time appended last.
C8_AsStated ==
    [][SubmitStep => AdmitEffect(LAMBDA t : ~(t < now - RateWindow))]_vars

\* C8 amended: a call drops the times 60 seconds old or older (t <= now - 60),
\* refuses with the window exactly so pruned when 10 or more remain, and
\* otherwise admits with the call time appended last.
C8_AdmitEffect ==
    [][SubmitStep => AdmitEffect(LAMBDA t : ~(t <= now - RateWindow))]_vars

\* a call pruned the window and then refused on the 10 times that remained
C8_Witness ==
    /\ outcome = "rate_limited"
    /\ Len(api_calls) = RateLimit
    /\ Len(admitted) > RateLimit
    /\ \E i \in DOMAIN admitted : admitted[i] <= now - RateWindow

\* the admitted calls of the minute that ends now
AdmittedThisMinute == {i \in DOMAIN admitted : admitted[i] > now - RateWindow}

\* C5: a submit that follows 10 submits admitted within the minute is refused
\* as rate limited, and a refused submit changes neither the message log nor
\* any file, and sends no request.
C5_EleventhRejected ==
    [][SubmitStep =>
        /\ Cardinality(AdmittedThisMinute) >= RateLimit => outcome' = "rate_limited"
        /\ outcome' = "rate_limited" =>
              messages' = messages /\ disk' = disk /\ ~posted']_vars

\* an eleventh submit was refused on a log and a file that hold messages
C5_Witness ==
    /\ outcome = "rate_limited"
    /\ Len(admitted) = RateLimit
    /\ messages # <<>>
    /\ disk[current_chat].state = "saved"

(***************************************************************************)
(* The user message                                                        *)
(***************************************************************************)
Last(s) == s[Len(s)]

\* C9 as stated: the user message a submit appends is the extracted text of
\* the attached file, a newline and the typed text whenever a file is
\* attached, and the typed text alone when none is.
C9_AsStated ==
    pc = "streaming" =>
        /\ messages = Append(before, user_msg)
        /\ user_msg.role = "user"
        /\ user_msg.content =
              IF upload # NoUpload
              THEN read_uploaded_file(upload) \o "\n" \o typed
              ELSE typed

\* C9 amended: the extracted text, a newline and the typed text when a file
\* is attached and its extracted text is not empty; the typed text alone when
\* no file is attached or the extracted text is empty.
C9_UserContent ==
    pc = "streaming" =>
        /\ messages = Append(before, user_msg)
        /\ user_msg.role = "user"
        /\ user_msg.content =
              IF upload # NoUpload /\ read_uploaded_file(upload) # ""
              THEN read_uploaded_file(upload) \o "\n" \o typed
              ELSE typed

\* a submit with a text file attached appended "Context.\nHello"
C9_Witness ==
    /\ pc = "streaming"
    /\ upload = TextFile("Context.")
    /\ Last(messages) = UserMessage("Context.\nHello")

(***************************************************************************)
(* Failure and rollback                                                    *)
(***************************************************************************)
\* C2: when the request of a submit is answered with an error status, or the
\* connection fails before or during the stream, the message log after the
\* submit is the message log before it.
C2_RolledBack ==
    [][outcome' \in {"api_error", "refused", "transport_error"} =>
        messages' = IF pc = "streaming" THEN before ELSE messages]_vars

\* a stream failed after text was accumulated, on a log that held messages
C2_Witness ==
    /\ outcome = "transport_error"
    /\ partial
    /\ messages # <<>>

Concat(parts) == Join("", parts)

\* C3: a submit whose stream and save both succeed leaves the log it started
\* from followed by the user message and one assistant message whose content
\* is the delta contents of the received frames, concatenated in order.
C3_TwoMessages ==
    [][pc = "streaming" /\ outcome' = "success" =>
        messages' = before \o <<user_msg, AssistantMessage(Concat(deltas))>>]_vars

\* C4: a frame json.loads rejects is skipped: the loop goes on with the text
\* accumulated so far and the log untouched.
C4_BadFrameSkipped ==
    [][RecvFrame(BadLine) =>
        /\ pc' = "streaming"
        /\ full_response' = full_response
        /\ messages' = messages]_vars

AssistantTexts(msgs) ==
    {msgs[i].content : i \in {j \in DOMAIN msgs : msgs[j].role = "assistant"}}

StoredTexts(files) ==
    UNION {AssistantTexts(Record(files[c]).messages) :
             c \in {d \in DOMAIN files : files[d].state = "saved"}}

\* C6: an assistant text enters the message log or a file only in the step
\* that ends a stream whose body was read to its end, and it is then the
\* whole text accumulated from that stream; in particular a stream that
\* fails adds none.
C6_AllOrNothing ==
    [][(AssistantTexts(messages') \cup StoredTexts(disk')) \subseteq
         (AssistantTexts(messages) \cup StoredTexts(disk) \cup
            (IF pc = "streaming" /\ outcome' \in {"success", "save_error"}
             THEN {full_response} ELSE {}))]_vars

\* a stream failed with text accumulated while log and file held a reply
C6_Witness ==
    /\ outcome \in {"transport_error", "parse_error"}
    /\ partial
    /\ AssistantTexts(messages) # {}
    /\ StoredTexts(disk) # {}

\* C7: no file ends with a user message that has no assistant reply.
C7_NoOrphanOnDisk ==
    \A c \in ChatIds :
        disk[c].state = "saved" /\ Record(disk[c]).messages # <<>> =>
            Last(Record(disk[c]).messages).role # "user"

\* C10: a rollback removes the last message of the log if that message is the
\* user message of the submit in flight, and otherwise leaves the log as it
\* is.  (When save_chat_history raises, the log the rollback finds ends with
\* the assistant message just appended.)
C10_RollbackOnlyUser ==
    [][pc = "streaming" /\ outcome' \in {"transport_error", "parse_error", "save_error"} =>
        LET log == IF outcome' = "save_error"
                   THEN Append(messages, AssistantMessage(full_response))
                   ELSE messages
        IN  messages' = IF Last(log) = user_msg THEN Pop(log) ELSE log]_vars

\* C11: when a submit ends with the assistant message appended and the chat
\* saved, loading the files gives, under the current chat id, the log before
\* the append followed by the appended message, roles and contents in order.
C11_RoundTrip ==
    [][pc = "streaming" /\ outcome' = "success" =>
        /\ current_chat \in DOMAIN load_chat_history(disk')
        /\ load_chat_history(disk')[current_chat].messages =
              Append(messages, AssistantMessage(full_response))]_vars

\* a second exchange was saved over the first and loads as the whole log
C11_Witness ==
    /\ outcome = "success"
    /\ Len(messages) = 4
    /\ disk[current_chat].state = "saved"
    /\ load_chat_history(disk)[current_chat].messages = messages

\* C12: a submit without an API key sends no request and leaves the log and
\* every file as they are.
C12_NoKeyNoEffect ==
    [][(\E prompt \in Prompts, file \in Uploads, provider \in Providers,
           response \in Responses : Submit(prompt, file, "", provider, response)) =>
        /\ outcome' \in {"rate_limited", "no_key"}
        /\ ~posted'
        /\ messages' = messages
        /\ disk' = disk]_vars

\* a submit without a key was turned down on a chat with a saved exchange
C12_Witness ==
    /\ outcome = "no_key"
    /\ ~posted
    /\ messages # <<>>
    /\ disk[current_chat].state = "saved"

\* C13: when the run is cancelled while the reply is streaming, no further
\* line is read, the text accumulated so far is dropped, and the log is what
\* it was before the submit.
C13_CancelRollsBack ==
    [][pc = "streaming" /\ outcome' = "interrupted" =>
        /\ pc' = "idle"
        /\ full_response' = ""
        /\ messages' = before]_vars

\* C14: whatever the interleaving of the statements of check_rate_limit in
\* several threads, every admitted call time still inside the window is in
\* the shared list, and no more than RateLimit calls are admitted in a window.
C14_ThreadSafe ==
    /\ Len(SelectSeq(admitted, LAMBDA t : t > now - RateWindow)) <=
          Len(api_calls)
    /\ Cardinality(AdmittedThisMinute) <= RateLimit

Paired(msgs) ==
    /\ Len(msgs) % 2 = 0
    /\ \A i \in DOMAIN msgs :
          msgs[i].role = IF i % 2 = 1 THEN "user" ELSE "assistant"

\* C16: whenever no submit is in flight the log is a sequence of user and
\* assistant pairs: even length, roles alternating from user, last message
\* not a user message.
C16_PairsWhenIdle == pc = "idle" => Paired(messages)

\* C17 as stated: in every state every timestamp of the window lies within
\* [now - 60, now].
C17_AsStated ==
    \A i \in DOMAIN api_calls :
        api_calls[i] >= now - RateWindow /\ api_calls[i] <= now

\* C17: right after a call of check_rate_limit at time t every timestamp of
\* the window is later than t - 60 and not later than t.
C17_AfterCall ==
    [][SubmitStep =>
        \A i \in DOMAIN api_calls' :
            api_calls'[i] > now - RateWindow /\ api_calls'[i] <= now]_vars

\* a call has just pruned the window and recorded its own time
C17_Witness ==
    /\ api_calls # <<>>
    /\ Last(api_calls) = now
    /\ Len(api_calls) < Len(admitted)
    /\ outcome = "no_key"

\* C18: a line that carries no delta content (a role-only or finish-reason
\* payload, or with OpenRouter a non-empty line without the `data: ` marker)
\* leaves the accumulated text as it is.
C18_NoDeltaNoChange ==
    [][(\/ RecvFrame(RoleLine)
        \/ RecvFrame(FinishLine)
        \/ api_provider = "OpenRouter" /\ RecvFrame(CommentLine)) =>
        /\ pc' = "streaming"
        /\ full_response' = full_response]_vars

\* C19: a new chat saves the log under the current chat id, then takes an id
\* that was never used and has no file, and empties the log; no step changes
\* the file of a chat other than the current one, and no file disappears.
C19_NewChatFrame ==
    [][/\ (\E save \in SaveResults : NewChat(save)) /\ outcome' = "new_chat" =>
            /\ disk'[current_chat].state = "saved"
            /\ Record(disk'[current_chat]).messages = messages
            /\ current_chat' \notin 1 .. current_chat
            /\ disk'[current_chat'] = Absent
            /\ messages' = <<>>
       /\ \A c \in ChatIds \ {current_chat} : disk'[c] = disk[c]
       /\ \A c \in ChatIds : disk[c] # Absent => disk'[c] # Absent]_vars

\* a new chat was opened on a log of one exchange, which is now on file
C19_Witness ==
    /\ outcome = "new_chat"
    /\ current_chat = 2
    /\ messages = <<>>
    /\ Len(Record(disk[1]).messages) = 2
    /\ disk[2] = Absent

\* C20: a submit that check_rate_limit admits adds exactly one timestamp, the
\* call time, to the pruned window, whether it then stops for a missing key,
\* fails, or starts streaming; no step of a submit in flight, rollback
\* included, changes the window.
C20_SlotKept ==
    [][/\ SubmitStep /\ outcome' # "rate_limited" =>
            /\ Len(api_calls') =
                  Len(SelectSeq(api_calls, LAMBDA t : t > now - RateWindow)) + 1
            /\ Last(api_calls') = now
       /\ pc = "streaming" => api_calls' = api_calls]_vars

\* two submits were admitted and rolled back: both call times are in the window
C20_Witness ==
    /\ outcome \in {"transport_error", "parse_error"}
    /\ messages = <<>>
    /\ Len(api_calls) = 2

====
